---- MODULE Spec2Model ----
(***************************************************************************)
(* Model of ranking_simulator.py: the restricted formula evaluator         *)
(* (safe_eval_expr / _eval), the score guardrail (clip), the rank          *)
(* computation and the top-K selection of the Streamlit script.            *)
(*                                                                         *)
(* A formula is a sequence of tokens (the text with its lexical items      *)
(* separated).  The columns of the table are float Series.  A float is an  *)
(* exact fraction n/d, extended with the IEEE values +inf, -inf, NaN and   *)
(* the two zeros; the rounding of binary floating point is not             *)
(* represented.  A Python int literal stays an int through + - * and unary *)
(* minus and becomes a float by division.                                  *)
(***************************************************************************)
EXTENDS Integers, Sequences, FiniteSets, TLC

(***************************************************************************)
(* Bounds of the model.                                                    *)
(***************************************************************************)
MaxTokens == 3
MaxRows == 3

(***************************************************************************)
(* Numbers.                                                                *)
(***************************************************************************)
Abs(x) == IF x < 0 THEN -x ELSE x

Sign(x) == IF x < 0 THEN -1 ELSE IF x > 0 THEN 1 ELSE 0

RECURSIVE Gcd(_, _)
Gcd(a, b) == IF b = 0 THEN a ELSE Gcd(b, a % b)

\* the canonical form of the fraction n/d
Norm(n, d) ==
    IF d = 0 THEN [n |-> Sign(n), d |-> 0]
    ELSE LET g == Gcd(Abs(n), Abs(d))
         IN  [n |-> (Sign(d) * n) \div g, d |-> Abs(d) \div g]

\* a float: n/d in lowest terms with d > 0; 1/0, -1/0 and 0/0 are +inf, -inf
\* and NaN; 0/1 and 0/-1 are the zeros of either sign
Num(i) == [n |-> i, d |-> 1]
NegZero == [n |-> 0, d |-> -1]
Inf == [n |-> 1, d |-> 0]
NegInf == [n |-> -1, d |-> 0]
NaN == [n |-> 0, d |-> 0]

IsNaN(x) == x.d = 0 /\ x.n = 0
IsInf(x) == x.d = 0 /\ x.n # 0
IsZero(x) == x.d # 0 /\ x.n = 0

\* the sign bit of a number that is not NaN, as 1 or -1
SignBit(x) == IF x.n # 0 THEN Sign(x.n) ELSE x.d

Signed(s, x) == IF s < 0 THEN [n |-> -x.n, d |-> IF x.n = 0 THEN -x.d ELSE x.d] ELSE x

\* x < y on numbers; every comparison with NaN is false, the zeros are equal
NumLess(x, y) ==
    IF IsNaN(x) \/ IsNaN(y) THEN FALSE
    ELSE IF x.d = 0 /\ y.d = 0 THEN x.n < y.n
    ELSE IF x.d = 0 THEN x.n < 0
    ELSE IF y.d = 0 THEN y.n > 0
    ELSE x.n * Abs(y.d) < y.n * Abs(x.d)

\* x == y on numbers
NumEq(x, y) == ~IsNaN(x) /\ ~IsNaN(y) /\ ~NumLess(x, y) /\ ~NumLess(y, x)

NumNeg(x) == IF IsNaN(x) THEN NaN ELSE Signed(-1, x)

NumAdd(x, y) ==
    IF IsNaN(x) \/ IsNaN(y) THEN NaN
    ELSE IF x.d = 0 THEN (IF y.d = 0 /\ y.n # x.n THEN NaN ELSE x)
    ELSE IF y.d = 0 THEN y
    ELSE LET n == x.n * Abs(y.d) + y.n * Abs(x.d)
         IN  IF n # 0 THEN Norm(n, Abs(x.d) * Abs(y.d))
             ELSE IF IsZero(x) /\ IsZero(y) /\ x.d < 0 /\ y.d < 0 THEN NegZero
             ELSE Num(0)

NumSub(x, y) == NumAdd(x, NumNeg(y))

NumMul(x, y) ==
    IF IsNaN(x) \/ IsNaN(y) THEN NaN
    ELSE IF (IsInf(x) /\ IsZero(y)) \/ (IsZero(x) /\ IsInf(y)) THEN NaN
    ELSE Signed(SignBit(x) * SignBit(y),
                IF IsInf(x) \/ IsInf(y) THEN Inf
                ELSE Norm(Abs(x.n) * Abs(y.n), Abs(x.d) * Abs(y.d)))

\* IEEE division: x/0 is an infinity, 0/0 and inf/inf are NaN
NumDiv(x, y) ==
    IF IsNaN(x) \/ IsNaN(y) THEN NaN
    ELSE IF (IsZero(x) /\ IsZero(y)) \/ (IsInf(x) /\ IsInf(y)) THEN NaN
    ELSE Signed(SignBit(x) * SignBit(y),
                IF IsZero(y) \/ IsInf(x) THEN Inf
                ELSE IF IsInf(y) THEN Num(0)
                ELSE Norm(Abs(x.n) * Abs(y.d), Abs(x.d) * Abs(y.n)))

\* a Python int has a single zero
IntZero(x) == IF IsZero(x) THEN Num(0) ELSE x

(***************************************************************************)
(* Values of the evaluator: a Python scalar number, a pandas Series (one   *)
(* number per row), or a string object (its text is not represented).      *)
(***************************************************************************)
\* int: the scalar is a Python int (a literal, or int arithmetic), not a float
Scalar(x, int) == [k |-> "num", v |-> x, s |-> <<>>, int |-> int]
Series(xs) == [k |-> "vec", v |-> NaN, s |-> xs, int |-> FALSE]
StrVal == [k |-> "str", v |-> NaN, s |-> <<>>, int |-> FALSE]

\* results: a returned value, or the exception that left the call (for an
\* unknown variable msg is the name of the variable)
Ok(val) == [kind |-> "ok", val |-> val, msg |-> ""]
Raise(kind, msg) == [kind |-> kind, val |-> StrVal, msg |-> msg]
Pending == [kind |-> "pending", val |-> StrVal, msg |-> ""]

(***************************************************************************)
(* Tokens of a formula text.                                               *)
(***************************************************************************)
NumTokens == {"0", "1", "2", "3", "4"}
NameTokens == {"ranking_score", "asp_boost", "pop_boost", "zzz"}
StrTokens == {"'s'"}

NumValue(t) ==
    CASE t = "0" -> 0 [] t = "1" -> 1 [] t = "2" -> 2 [] t = "3" -> 3 [] t = "4" -> 4

\* the syntax tree nodes built by ast.parse
Constant(val) == [type |-> "Constant", value |-> val]
Name(id) == [type |-> "Name", id |-> id]
BinOp(l, o, r) == [type |-> "BinOp", op |-> o, left |-> l, right |-> r]
UnaryOp(o, x) == [type |-> "UnaryOp", op |-> o, operand |-> x]
\* Call, Attribute, Compare, BoolOp, Tuple: _eval never looks inside them
Other(type) == [type |-> type]

(***************************************************************************)
(* ast.parse(expr, mode="eval") on the token sequence: Python's expression *)
(* grammar for the tokens above.  The binary levels, from the loosest      *)
(* binding to the tightest, are followed by the unary level ('-' and '+'   *)
(* prefixes) and the primary level (an atom and its trailers).  A parse    *)
(* step returns the node and the position after it.                        *)
(***************************************************************************)
Tok(toks, i) == IF i >= 1 /\ i <= Len(toks) THEN toks[i] ELSE "<end>"

Parsed(node, pos) == [ok |-> TRUE, node |-> node, pos |-> pos]
NoParse == [ok |-> FALSE, node |-> Other("none"), pos |-> 0]

\* the operators of the binary levels: and, comparison, bitor, arith, term
LevelOps == << {"and"}, {"<"}, {"|"}, {"+", "-"}, {"*", "/"} >>
UnaryLevel == Len(LevelOps) + 1
PrimaryLevel == Len(LevelOps) + 2

\* the node of  left <op> right ; all binary operators are left-associative
Combine(left, o, right) ==
    CASE o = "and" -> Other("BoolOp")
      [] o = "<" -> Other("Compare")
      [] o = "|" -> BinOp(left, "BitOr", right)
      [] o = "+" -> BinOp(left, "Add", right)
      [] o = "-" -> BinOp(left, "Sub", right)
      [] o = "*" -> BinOp(left, "Mult", right)
      [] o = "/" -> BinOp(left, "Div", right)

\* the position after a run of adjacent string literals (one Constant)
RECURSIVE StrRun(_, _)
StrRun(toks, i) == IF Tok(toks, i) \in StrTokens THEN StrRun(toks, i + 1) ELSE i

RECURSIVE ParseLevel(_, _, _), ParseTail(_, _, _, _)

\* binary level:  operand (op operand)*      operand: the next level
\* unary level:   ('-' | '+') unary | primary
\* primary level: atom trailer*
\* atom:          NUMBER | STRING+ | NAME | '(' ')' | '(' expr ')'
ParseLevel(toks, i, lvl) ==
    LET t == Tok(toks, i)
    IN  IF lvl <= Len(LevelOps)
        THEN LET c == ParseLevel(toks, i, lvl + 1)
             IN  IF c.ok THEN ParseTail(toks, c.node, c.pos, lvl) ELSE NoParse
        ELSE IF lvl = UnaryLevel
        THEN IF t \in {"-", "+"}
             THEN LET f == ParseLevel(toks, i + 1, UnaryLevel)
                  IN  IF f.ok
                      THEN Parsed(UnaryOp(IF t = "-" THEN "USub" ELSE "UAdd", f.node), f.pos)
                      ELSE NoParse
             ELSE ParseLevel(toks, i, PrimaryLevel)
        ELSE LET e == IF t = "(" /\ Tok(toks, i + 1) # ")"
                      THEN ParseLevel(toks, i + 1, 1) ELSE NoParse
                 a == IF t \in NumTokens
                      THEN Parsed(Constant(Scalar(Num(NumValue(t)), TRUE)), i + 1)
                      ELSE IF t \in StrTokens THEN Parsed(Constant(StrVal), StrRun(toks, i))
                      ELSE IF t \in NameTokens THEN Parsed(Name(t), i + 1)
                      ELSE IF t = "(" /\ Tok(toks, i + 1) = ")"
                      THEN Parsed(Other("Tuple"), i + 2)
                      ELSE IF e.ok /\ Tok(toks, e.pos) = ")" THEN Parsed(e.node, e.pos + 1)
                      ELSE NoParse
             IN  IF a.ok THEN ParseTail(toks, a.node, a.pos, PrimaryLevel) ELSE NoParse

\* the rest of a level after its first operand `left`
\* trailer:  '.' NAME  |  '(' ')'  |  '(' arg ')'
\* arg:      expr  |  NAME '=' expr  |  '*' expr
ParseTail(toks, left, i, lvl) ==
    LET t == Tok(toks, i)
    IN  IF lvl <= Len(LevelOps)
        THEN IF t \in LevelOps[lvl]
             THEN LET r == ParseLevel(toks, i + 1, lvl + 1)
                  IN  IF r.ok THEN ParseTail(toks, Combine(left, t, r.node), r.pos, lvl)
                      ELSE NoParse
             ELSE Parsed(left, i)
        ELSE IF t = "."
        THEN IF Tok(toks, i + 1) \in NameTokens
             THEN ParseTail(toks, Other("Attribute"), i + 2, lvl)
             ELSE NoParse
        ELSE IF t = "("
        THEN IF Tok(toks, i + 1) = ")"
             THEN ParseTail(toks, Other("Call"), i + 2, lvl)
             ELSE LET kw == Tok(toks, i + 1) \in NameTokens /\ Tok(toks, i + 2) = "="
                      star == Tok(toks, i + 1) = "*"
                      e == ParseLevel(toks, IF kw THEN i + 3 ELSE IF star THEN i + 2 ELSE i + 1, 1)
                  IN  IF e.ok /\ Tok(toks, e.pos) = ")"
                      THEN ParseTail(toks, Other("Call"), e.pos + 1, lvl)
                      ELSE NoParse
        ELSE Parsed(left, i)

\* the whole text must be one expression, else SyntaxError
parse(toks) ==
    LET e == ParseLevel(toks, 1, 1)
    IN  IF e.ok /\ e.pos = Len(toks) + 1 THEN e ELSE NoParse

(***************************************************************************)
(* The host's arithmetic on values (operator.add/sub/mul/truediv and unary *)
(* minus), as _eval applies it.                                            *)
(***************************************************************************)
NumOp(o, x, y) ==
    CASE o = "Add" -> NumAdd(x, y)
      [] o = "Sub" -> NumSub(x, y)
      [] o = "Mult" -> NumMul(x, y)
      [] o = "Div" -> NumDiv(x, y)

\* variant: the first entry of a Series is used for every row
AtFirst(val, i) == IF val.k = "vec" THEN val.s[1] ELSE val.v

\* the i-th entry of an operand: a scalar is broadcast against a Series
At(val, i) == IF val.k = "vec" THEN val.s[i] ELSE val.v

HostOp(o, l, r) ==
    IF l.k = "str" \/ r.k = "str"
    THEN \* str + str and str * int are strings; nothing else is defined
         IF \/ (o = "Add" /\ l.k = "str" /\ r.k = "str")
            \/ (o = "Mult" /\ l.k = "str" /\ r.k = "num" /\ r.int)
            \/ (o = "Mult" /\ l.k = "num" /\ l.int /\ r.k = "str")
         THEN Ok(StrVal)
         ELSE Raise("TypeError", "unsupported operand type(s)")
    ELSE IF l.k = "num" /\ r.k = "num"
    THEN \* Python numbers: division by zero raises
         IF o = "Div" /\ IsZero(r.v)
         THEN Raise("ZeroDivisionError", "division by zero")
         ELSE LET int == o # "Div" /\ l.int /\ r.int
                  x == NumOp(o, l.v, r.v)
              IN  Ok(Scalar(IF int THEN IntZero(x) ELSE x, int))
    ELSE \* a Series is involved: elementwise, IEEE division
         LET n == IF l.k = "vec" THEN Len(l.s) ELSE Len(r.s)
         IN  Ok(Series([i \in 1..n |-> NumOp(o, At(l, i), At(r, i))]))

HostNeg(x) ==
    CASE x.k = "str" -> Raise("TypeError", "bad operand type for unary -")
      [] x.k = "num" -> Ok(Scalar(IF x.int THEN IntZero(NumNeg(x.v)) ELSE NumNeg(x.v), x.int))
      [] x.k = "vec" -> Ok(Series([i \in 1..Len(x.s) |-> NumNeg(x.s[i])]))

(***************************************************************************)
(* The safe expression evaluator.                                          *)
(***************************************************************************)
ALLOWED_OPERATORS == {"Add", "Sub", "Mult", "Div"}

\* variant: a node outside the whitelist evaluates to a number instead of raising
RECURSIVE EvalPermissive(_, _)
EvalPermissive(node, variables) ==
    IF node.type = "Constant" THEN Ok(node.value)
    ELSE IF node.type = "Name"
    THEN IF node.id \notin DOMAIN variables
         THEN Raise("ValueError", node.id)
         ELSE Ok(variables[node.id])
    ELSE IF node.type = "BinOp"
    THEN IF node.op \notin ALLOWED_OPERATORS
         THEN Raise("TypeError", "Operator not allowed")
         ELSE LET l == EvalPermissive(node.left, variables)
              IN  IF l.kind # "ok" THEN l
                  ELSE LET r == EvalPermissive(node.right, variables)
                       IN  IF r.kind # "ok" THEN r
                           ELSE HostOp(node.op, l.val, r.val)
    ELSE IF node.type = "UnaryOp"
    THEN IF node.op = "USub"
         THEN LET x == EvalPermissive(node.operand, variables)
              IN  IF x.kind # "ok" THEN x ELSE HostNeg(x.val)
         ELSE Raise("TypeError", "Unary operator not allowed")
    ELSE Ok(Scalar(Num(0), TRUE))

RECURSIVE _eval(_, _)
_eval(node, variables) ==
    IF node.type = "Constant" THEN Ok(node.value)
    ELSE IF node.type = "Name"
    THEN IF node.id \notin DOMAIN variables
         THEN Raise("ValueError", node.id)
         ELSE Ok(variables[node.id])
    ELSE IF node.type = "BinOp"
    THEN IF node.op \notin ALLOWED_OPERATORS
         THEN Raise("TypeError", "Operator not allowed")
         ELSE LET l == _eval(node.left, variables)
              IN  IF l.kind # "ok" THEN l
                  ELSE LET r == _eval(node.right, variables)
                       IN  IF r.kind # "ok" THEN r
                           ELSE HostOp(node.op, l.val, r.val)
    ELSE IF node.type = "UnaryOp"
    THEN IF node.op = "USub"
         THEN LET x == _eval(node.operand, variables)
              IN  IF x.kind # "ok" THEN x ELSE HostNeg(x.val)
         ELSE Raise("TypeError", "Unary operator not allowed")
    ELSE Raise("TypeError", "Unsupported expression")

safe_eval_expr(expr, variables) ==
    LET parsed == parse(expr)
    IN  IF ~parsed.ok THEN Raise("SyntaxError", "invalid syntax")
        ELSE _eval(parsed.node, variables)

\* variant: the column misses the last row
ColumnShort(df, name) == Series([i \in 1..(Len(df) - 1) |-> df[i][name]])

\* a data frame is a sequence of rows; a column is the Series of one field
Column(df, name) == Series([i \in 1..Len(df) |-> df[i][name]])

evaluate_formula(df, expr) ==
    safe_eval_expr(expr,
        [name \in {"ranking_score", "asp_boost", "pop_boost"} |-> Column(df, name)])

(***************************************************************************)
(* Columns of df_sim: the score guardrail, the ranks and the top-K table.  *)
(***************************************************************************)
NoColumn == [k |-> "none", v |-> NaN, s |-> <<>>, int |-> FALSE]

\* df_sim[col] = val: a Series is stored as it is, a scalar fills every row
SetColumn(df, val) ==
    IF val.k = "num" THEN Series([i \in 1..Len(df) |-> val.v]) ELSE val

\* variant: the guardrail leaves the column as it is
ClipNothing(col) ==
    IF col.k = "str"
    THEN Raise("TypeError", "'>=' not supported between instances of 'str' and 'int'")
    ELSE Ok(col)

\* Series.clip(lower=0): entries below 0 become 0, NaN stays; comparing the
\* strings of an object column with 0 raises
clip(col) ==
    IF col.k = "str"
    THEN Raise("TypeError", "'>=' not supported between instances of 'str' and 'int'")
    ELSE Ok(Series([i \in 1..Len(col.s) |->
                IF IsNaN(col.s[i]) \/ ~NumLess(col.s[i], Num(0))
                THEN col.s[i] ELSE Num(0)]))

\* Series.rank(method="first", ascending=False): NaN keeps a NaN rank
rank(col) ==
    Series([i \in 1..Len(col.s) |->
        IF IsNaN(col.s[i]) THEN NaN
        ELSE Num(1 + Cardinality({j \in 1..Len(col.s) :
                     \/ NumLess(col.s[i], col.s[j])
                     \/ (NumEq(col.s[i], col.s[j]) /\ j < i)}))])

\* rank_b - rank_a, row by row
RankDelta(ra, rb) == Series([i \in 1..Len(ra.s) |-> NumSub(rb.s[i], ra.s[i])])

\* x <= y on numbers
NumLeq(x, y) == NumLess(x, y) \/ NumEq(x, y)

\* the rows with rank_a <= top_k or rank_b <= top_k, sorted by rank_a (rows
\* with a NaN rank_a last, in their input order), as row indices
TopK(ra, rb, k) ==
    LET sel == {i \in 1..Len(ra.s) : NumLeq(ra.s[i], Num(k)) \/ NumLeq(rb.s[i], Num(k))}
        Before(j, i) ==
            \/ ~IsNaN(ra.s[j]) /\ (IsNaN(ra.s[i]) \/ NumLess(ra.s[j], ra.s[i]))
            \/ IsNaN(ra.s[j]) /\ IsNaN(ra.s[i]) /\ j < i
        pos(i) == 1 + Cardinality({j \in sel : Before(j, i)})
    IN  [p \in 1..Cardinality(sel) |-> CHOOSE i \in sel : pos(i) = p]

(***************************************************************************)
(* Inputs.                                                                 *)
(***************************************************************************)
\* the tokens formulas are enumerated over
Alphabet ==
    {"0", "2", "ranking_score", "asp_boost", "zzz", "'s'",
     "+", "-", "*", "/", "(", ")", "=", "<", "|", ".", "and"}

TokenSeqs(n) == UNION {[1..k -> Alphabet] : k \in 0..n}

\* the default formulas of the sidebar and the worked examples
FormulaA == <<"ranking_score", "*", "(", "1", "+", "asp_boost", ")">>
FormulaB == <<"ranking_score", "*", "(", "1", "+", "2", "*", "asp_boost", ")">>

ExampleFormulas ==
    { FormulaA, FormulaB,
      <<"2", "+", "3", "*", "4">>,
      <<"(", "2", "+", "3", ")", "*", "4">>,
      <<"-", "2", "+", "3">>,
      <<"1", "/", "asp_boost">>,
      <<"1", "/", "0", "+", "zzz">>,
      <<"1", "/", "0">>,
      <<"zzz", "+", "pop_boost", "(", ")">>,
      <<"ranking_score", "+", "pop_boost", "(", ")">>,
      <<"pop_boost", "-", "ranking_score">> }

\* the formulas typed into the sidebar in the runs of the script
SidebarFormulas ==
    { FormulaA, FormulaB,
      <<"ranking_score">>,
      <<"pop_boost", "-", "ranking_score">>,
      <<"-", "2">>,
      <<"ranking_score", "/", "asp_boost">>,
      <<"1", "/", "0">>,
      <<"zzz">>,
      <<"'s'">> }

Row(rs, ab, pb) == [ranking_score |-> Num(rs), asp_boost |-> Num(ab), pop_boost |-> Num(pb)]

BaseTable == << Row(10, 1, -1), Row(20, 0, 0), Row(30, 0, 2), Row(0, 1, 0) >>

\* the rows a filtered table is made of
RowChoices == { Row(10, 1, -1), Row(20, 0, 0), Row(0, 0, 2) }

Tables(n) == UNION {[1..k -> RowChoices] : k \in 0..n}

TopKChoices == {5, 20}

(***************************************************************************)
(* State.  One run of the script walks pc through its sections; a widget   *)
(* change reruns it from the top.                                          *)
(***************************************************************************)
VARIABLES
    filtered_df,    \* the rows of the selected search term
    formula_a, formula_b, top_k,    \* the sidebar widgets
    pc,             \* the section of the script about to run
    score_a, score_b, rank_a, rank_b, rank_delta,    \* columns of df_sim
    topk_df,        \* the row indices of the top-K table
    error,          \* the exception caught by the except clause
    output,         \* what the page shows
    result          \* the outcome of one evaluate_formula call

vars == <<filtered_df, formula_a, formula_b, top_k, pc, score_a, score_b,
          rank_a, rank_b, rank_delta, topk_df, error, output, result>>

NoError == [kind |-> "none", val |-> StrVal, msg |-> ""]
NoOutput == [kind |-> "none", rows |-> <<>>, msg |-> ""]

\* the state of a run before its first section
Fresh ==
    /\ pc = "filter"
    /\ score_a = NoColumn /\ score_b = NoColumn
    /\ rank_a = NoColumn /\ rank_b = NoColumn /\ rank_delta = NoColumn
    /\ topk_df = <<>>
    /\ error = NoError
    /\ output = NoOutput

Init ==
    /\ filtered_df \in Tables(MaxRows)
    /\ formula_a \in SidebarFormulas
    /\ formula_b \in SidebarFormulas
    /\ top_k \in TopKChoices
    /\ result = Pending
    /\ Fresh

Widgets == <<filtered_df, formula_a, formula_b, top_k>>
Columns == <<score_a, score_b, rank_a, rank_b, rank_delta, topk_df>>

\* lines 51-55: an empty selection shows a warning and stops the run
ApplyFilters ==
    /\ pc = "filter"
    /\ IF Len(filtered_df) = 0
       THEN /\ output' = [kind |-> "warning", rows |-> <<>>,
                          msg |-> "No data available for selected filters"]
            /\ pc' = "stopped"
       ELSE /\ output' = output
            /\ pc' = "eval_a"
    /\ UNCHANGED <<Widgets, Columns, error, result>>

\* line 142
EvalA ==
    /\ pc = "eval_a"
    /\ LET r == evaluate_formula(filtered_df, formula_a)
       IN  IF r.kind = "ok"
           THEN /\ score_a' = SetColumn(filtered_df, r.val)
                /\ error' = error
                /\ pc' = "eval_b"
           ELSE /\ score_a' = score_a
                /\ error' = r
                /\ pc' = "except"
    /\ UNCHANGED <<Widgets, score_b, rank_a, rank_b, rank_delta, topk_df, output, result>>

\* line 143
EvalB ==
    /\ pc = "eval_b"
    /\ LET r == evaluate_formula(filtered_df, formula_b)
       IN  IF r.kind = "ok"
           THEN /\ score_b' = SetColumn(filtered_df, r.val)
                /\ error' = error
                /\ pc' = "clip_a"
           ELSE /\ score_b' = score_b
                /\ error' = r
                /\ pc' = "except"
    /\ UNCHANGED <<Widgets, score_a, rank_a, rank_b, rank_delta, topk_df, output, result>>

\* line 146
ClipA ==
    /\ pc = "clip_a"
    /\ LET r == clip(score_a)
       IN  IF r.kind = "ok"
           THEN /\ score_a' = r.val
                /\ error' = error
                /\ pc' = "clip_b"
           ELSE /\ score_a' = score_a
                /\ error' = r
                /\ pc' = "except"
    /\ UNCHANGED <<Widgets, score_b, rank_a, rank_b, rank_delta, topk_df, output, result>>

\* line 147
ClipB ==
    /\ pc = "clip_b"
    /\ LET r == clip(score_b)
       IN  IF r.kind = "ok"
           THEN /\ score_b' = r.val
                /\ error' = error
                /\ pc' = "rank"
           ELSE /\ score_b' = score_b
                /\ error' = r
                /\ pc' = "except"
    /\ UNCHANGED <<Widgets, score_a, rank_a, rank_b, rank_delta, topk_df, output, result>>

\* variant: the error is shown but the run goes on
FormulaErrorGoesOn ==
    /\ pc = "except"
    /\ output' = [kind |-> "error", rows |-> <<>>, msg |-> error.msg]
    /\ pc' = "rank"
    /\ UNCHANGED <<Widgets, Columns, error, result>>

\* lines 149-151: the error is shown and the run stops
FormulaError ==
    /\ pc = "except"
    /\ output' = [kind |-> "error", rows |-> <<>>, msg |-> error.msg]
    /\ pc' = "stopped"
    /\ UNCHANGED <<Widgets, Columns, error, result>>

\* lines 156-164
RankComputation ==
    /\ pc = "rank"
    /\ rank_a' = rank(score_a)
    /\ rank_b' = rank(score_b)
    /\ rank_delta' = RankDelta(rank(score_a), rank(score_b))
    /\ pc' = "topk"
    /\ UNCHANGED <<Widgets, score_a, score_b, topk_df, error, output, result>>

\* lines 169-171
TopKSelection ==
    /\ pc = "topk"
    /\ topk_df' = TopK(rank_a, rank_b, top_k)
    /\ pc' = "display"
    /\ UNCHANGED <<Widgets, score_a, score_b, rank_a, rank_b, rank_delta, error, output, result>>

\* lines 176-248: the table, the metrics, the chart and the download
Display ==
    /\ pc = "display"
    /\ output' = [kind |-> "table", rows |-> topk_df, msg |-> ""]
    /\ pc' = "done"
    /\ UNCHANGED <<Widgets, Columns, error, result>>

\* a widget change after a run makes the script run again from the top:
\* df_sim and the page are rebuilt
Restart ==
    /\ pc \in {"done", "stopped"}
    /\ pc' = "filter"
    /\ score_a' = NoColumn /\ score_b' = NoColumn
    /\ rank_a' = NoColumn /\ rank_b' = NoColumn /\ rank_delta' = NoColumn
    /\ topk_df' = <<>>
    /\ error' = NoError
    /\ output' = NoOutput
    /\ UNCHANGED result

\* lines 35-38, 51
ChangeSearchTerm ==
    /\ filtered_df' \in Tables(MaxRows) \ {filtered_df}
    /\ UNCHANGED <<formula_a, formula_b, top_k>>
    /\ Restart

\* lines 62-66
ChangeFormulaA ==
    /\ formula_a' \in SidebarFormulas \ {formula_a}
    /\ UNCHANGED <<filtered_df, formula_b, top_k>>
    /\ Restart

\* lines 68-72
ChangeFormulaB ==
    /\ formula_b' \in SidebarFormulas \ {formula_b}
    /\ UNCHANGED <<filtered_df, formula_a, top_k>>
    /\ Restart

\* lines 40-46
ChangeTopK ==
    /\ top_k' \in TopKChoices \ {top_k}
    /\ UNCHANGED <<filtered_df, formula_a, formula_b>>
    /\ Restart

Next ==
    \/ ApplyFilters
    \/ EvalA
    \/ EvalB
    \/ ClipA
    \/ ClipB
    \/ FormulaError
    \/ RankComputation
    \/ TopKSelection
    \/ Display
    \/ ChangeSearchTerm
    \/ ChangeFormulaA
    \/ ChangeFormulaB
    \/ ChangeTopK

Spec == Init /\ [][Next]_vars

(***************************************************************************)
(* The evaluator alone: one evaluate_formula call on a formula and a       *)
(* table drawn from the bounded sets.                                      *)
(***************************************************************************)
EvalInit ==
    /\ formula_a \in TokenSeqs(MaxTokens) \cup ExampleFormulas
    /\ filtered_df \in {SubSeq(BaseTable, 1, n) : n \in 1..MaxRows}
    /\ formula_b = <<>>
    /\ top_k = 5
    /\ result = Pending
    /\ Fresh

Evaluate ==
    /\ result = Pending
    /\ result' = evaluate_formula(filtered_df, formula_a)
    /\ UNCHANGED <<Widgets, pc, Columns, error, output>>

EvalNext == Evaluate

SpecEval == EvalInit /\ [][EvalNext]_vars

(***************************************************************************)
(* Vocabulary of the properties.                                           *)
(***************************************************************************)
BoundNames == {"ranking_score", "asp_boost", "pop_boost"}

\* the nodes of a tree in pre-order, left to right
RECURSIVE PreOrder(_)
PreOrder(node) ==
    IF node.type = "BinOp"
    THEN <<node>> \o PreOrder(node.left) \o PreOrder(node.right)
    ELSE IF node.type = "UnaryOp" THEN <<node>> \o PreOrder(node.operand)
    ELSE <<node>>

Tree == parse(formula_a)
TreeNodes == PreOrder(Tree.node)
Evaluated == result # Pending
Rows == 1..Len(filtered_df)

\* a node of the grammar: number, variable, negation, + - * /
GrammarNode(n) ==
    \/ n.type = "Constant" /\ n.value.k = "num"
    \/ n.type = "Name"
    \/ n.type = "UnaryOp" /\ n.op = "USub"
    \/ n.type = "BinOp" /\ n.op \in {"Add", "Sub", "Mult", "Div"}

InGrammar == Tree.ok /\ \A i \in DOMAIN TreeNodes : GrammarNode(TreeNodes[i])

UnknownNames ==
    {TreeNodes[i].id : i \in {j \in DOMAIN TreeNodes : TreeNodes[j].type = "Name"}} \ BoundNames

\* a call, an attribute access, a comparison, a boolean or a bitwise operator
Construct(n) ==
    \/ n.type \in {"Call", "Attribute", "Compare", "BoolOp"}
    \/ n.type = "BinOp" /\ n.op = "BitOr"

\* the text  NAME = expression , an assignment statement
IsAssignment ==
    /\ Len(formula_a) >= 3
    /\ formula_a[1] \in NameTokens
    /\ formula_a[2] = "="
    /\ parse(SubSeq(formula_a, 3, Len(formula_a))).ok

ContainsConstruct ==
    \/ IsAssignment
    \/ Tree.ok /\ \E i \in DOMAIN TreeNodes : Construct(TreeNodes[i])

HasDivision ==
    \E i \in DOMAIN TreeNodes : TreeNodes[i].type = "BinOp" /\ TreeNodes[i].op = "Div"

HasStringLiteral ==
    \E i \in DOMAIN TreeNodes :
        TreeNodes[i].type = "Constant" /\ TreeNodes[i].value.k = "str"

OnlyNumberLiterals ==
    \A i \in DOMAIN TreeNodes :
        TreeNodes[i].type = "Constant" => TreeNodes[i].value.k = "num"

\* the i-th entry of a value, a scalar standing for each of its rows
RowEntry(val, i) == IF val.k = "vec" THEN val.s[i] ELSE val.v

\* ordinary arithmetic on one row: a fraction n/d with d > 0, or undefined
\* where a divisor is zero
Frac(n, d) == [def |-> TRUE, n |-> n, d |-> d]
Undefined == [def |-> FALSE, n |-> 0, d |-> 1]

RECURSIVE RowEval(_, _)
RowEval(node, row) ==
    IF node.type = "Constant" THEN Frac(node.value.v.n, node.value.v.d)
    ELSE IF node.type = "Name" THEN Frac(row[node.id].n, row[node.id].d)
    ELSE IF node.type = "UnaryOp"
    THEN LET x == RowEval(node.operand, row)
         IN  IF x.def THEN Frac(-x.n, x.d) ELSE Undefined
    ELSE LET l == RowEval(node.left, row)
             r == RowEval(node.right, row)
         IN  IF ~l.def \/ ~r.def THEN Undefined
             ELSE CASE node.op = "Add" -> Frac(l.n * r.d + r.n * l.d, l.d * r.d)
                    [] node.op = "Sub" -> Frac(l.n * r.d - r.n * l.d, l.d * r.d)
                    [] node.op = "Mult" -> Frac(l.n * r.n, l.d * r.d)
                    [] node.op = "Div" ->
                         IF r.n = 0 THEN Undefined
                         ELSE Frac(l.n * r.d * Sign(r.n), l.d * Abs(r.n))

SameNumber(x, q) == x.d # 0 /\ x.n * q.d = q.n * Abs(x.d)

(***************************************************************************)
(* Properties of the evaluator, checked under SpecEval.                    *)
(***************************************************************************)

C2_StringLiteralRejected ==
    (Evaluated /\ Tree.ok /\ HasStringLiteral /\ UnknownNames = {}) =>
        result.kind = "TypeError"

\* C3: a tree of the grammar with a variable that is not bound fails with
\* ValueError "Unknown variable: <name>" for such a name, wherever it occurs.
C3_UnknownVariableFails ==
    (Evaluated /\ InGrammar /\ UnknownNames # {}) =>
        /\ result.kind = "ValueError"
        /\ result.msg \in UnknownNames

\* C4: a formula of the grammar with all variables bound never fails, also
\* when a divisor is zero.
C4_DivisionNeverFails ==
    (Evaluated /\ InGrammar /\ UnknownNames = {}) => result.kind = "ok"

\* C5: for a tree of the grammar with all variables bound, the i-th entry of
\* the result is the value of the tree in ordinary arithmetic on the i-th
\* entries of the columns, on every row where that value is defined; the
\* worked examples have their stated values.
C5_Elementwise ==
    /\ (Evaluated /\ InGrammar /\ UnknownNames = {}) =>
          \A i \in Rows :
              RowEval(Tree.node, filtered_df[i]).def =>
                  /\ result.kind = "ok"
                  /\ SameNumber(RowEntry(result.val, i), RowEval(Tree.node, filtered_df[i]))
    /\ (Evaluated /\ formula_a = <<"2", "+", "3", "*", "4">>) =>
          result = Ok(Scalar(Num(14), TRUE))
    /\ (Evaluated /\ formula_a = <<"(", "2", "+", "3", ")", "*", "4">>) =>
          result = Ok(Scalar(Num(20), TRUE))
    /\ (Evaluated /\ formula_a = <<"-", "2", "+", "3">>) =>
          result = Ok(Scalar(Num(1), TRUE))
    /\ (Evaluated /\ formula_a = FormulaA /\ filtered_df = SubSeq(BaseTable, 1, 3)) =>
          result = Ok(Series(<<Num(20), Num(20), Num(30)>>))

C5_Witness ==
    /\ Evaluated /\ InGrammar
    /\ formula_a = FormulaA
    /\ Len(filtered_df) = 3
    /\ result = Ok(Series(<<Num(20), Num(20), Num(30)>>))

\* C6 (as stated): every successful evaluation returns a vector of length N.
C6_AlwaysVector ==
    (Evaluated /\ result.kind = "ok") =>
        /\ result.val.k = "vec"
        /\ Len(result.val.s) = Len(filtered_df)

\* C6 (amended): a successful evaluation returns a vector of length N exactly
\* when the formula names a variable; a formula of literals only returns a
\* bare scalar, which fills N rows only once it is stored as a column.
C6_VectorIffVariable ==
    (Evaluated /\ result.kind = "ok") =>
        IF \E i \in DOMAIN TreeNodes : TreeNodes[i].type = "Name"
        THEN /\ result.val.k = "vec"
             /\ Len(result.val.s) = Len(filtered_df)
        ELSE /\ result.val.k \in {"num", "str"}
             /\ result.val.s = <<>>
             /\ result.val.k = "num" =>
                   /\ Len(SetColumn(filtered_df, result.val).s) = Len(filtered_df)
                   /\ \A i \in Rows : SetColumn(filtered_df, result.val).s[i] = result.val.v

C6_Witness ==
    /\ Evaluated
    /\ formula_a = <<"2", "+", "2">>
    /\ result = Ok(Scalar(Num(4), TRUE))
    /\ Len(filtered_df) = 2

\* the failure a node raises by itself: a kind or an operator outside the
\* whitelist, or a name that is not bound
Offence(n) ==
    IF n.type = "Name"
    THEN IF n.id \in BoundNames THEN NoError ELSE Raise("ValueError", n.id)
    ELSE IF n.type = "BinOp"
    THEN IF n.op \in {"Add", "Sub", "Mult", "Div"} THEN NoError
         ELSE Raise("TypeError", "Operator not allowed")
    ELSE IF n.type = "UnaryOp"
    THEN IF n.op = "USub" THEN NoError
         ELSE Raise("TypeError", "Unary operator not allowed")
    ELSE IF n.type = "Constant" THEN NoError
    ELSE Raise("TypeError", "Unsupported expression")

Offenders == {i \in DOMAIN TreeNodes : Offence(TreeNodes[i]) # NoError}

\* C10: the failure raised is that of the first offending node in pre-order,
\* left to right (trees whose literals are numbers).
C10_FirstOffenderInPreOrder ==
    (Evaluated /\ Tree.ok /\ OnlyNumberLiterals /\ Offenders # {}) =>
        result = Offence(TreeNodes[CHOOSE i \in Offenders : \A j \in Offenders : i <= j])

(***************************************************************************)
(* Properties of a run of the script, checked under Spec.                  *)
(***************************************************************************)
EvalOfA == evaluate_formula(filtered_df, formula_a)
EvalOfB == evaluate_formula(filtered_df, formula_b)

\* the run is at the rank computation or past it
Ranking == pc \in {"rank", "topk", "display", "done"}
Ranked == pc \in {"topk", "display", "done"}

\* C7 (as stated): at the rank computation every score is >= 0 and equals
\* max(0, evaluated value) of its row.
NonNegativeOf(x, v) ==
    /\ ~IsNaN(x) /\ ~NumLess(x, Num(0))
    /\ x = IF NumLess(v, Num(0)) \/ IsNaN(v) THEN Num(0) ELSE v

C7_AllScoresNonNegative ==
    Ranking =>
        \A i \in Rows :
            /\ NonNegativeOf(score_a.s[i], RowEntry(EvalOfA.val, i))
            /\ NonNegativeOf(score_b.s[i], RowEntry(EvalOfB.val, i))

\* C7 (amended): the evaluator's values are stored unclamped, and at the rank
\* computation every score whose evaluated value is not NaN is >= 0 and
\* equals max(0, evaluated value); a NaN value stays NaN.
ClampedOf(x, v) ==
    IF IsNaN(v) THEN IsNaN(x)
    ELSE /\ ~IsNaN(x) /\ ~NumLess(x, Num(0))
         /\ x = IF NumLess(v, Num(0)) THEN Num(0) ELSE v

C7_ClampedUnlessNaN ==
    /\ pc \in {"eval_b", "clip_a"} => score_a = SetColumn(filtered_df, EvalOfA.val)
    /\ pc = "clip_a" => score_b = SetColumn(filtered_df, EvalOfB.val)
    /\ Ranking =>
          \A i \in Rows :
              /\ ClampedOf(score_a.s[i], RowEntry(EvalOfA.val, i))
              /\ ClampedOf(score_b.s[i], RowEntry(EvalOfB.val, i))

C7_Witness ==
    /\ pc = "rank"
    /\ \E i \in Rows :
          /\ NumLess(RowEntry(EvalOfA.val, i), Num(0))
          /\ score_a.s[i] = Num(0)
    /\ \E i \in Rows : IsNaN(score_b.s[i])

\* C8: the rank column of a score column of length N is a permutation of
\* 1..N; a strictly higher score has a lower rank number, and of two equal
\* scores the earlier row has the lower rank number.
IsDenseRank(r, sc) ==
    /\ Len(r.s) = Len(sc.s)
    /\ {r.s[i] : i \in 1..Len(r.s)} = {Num(n) : n \in 1..Len(sc.s)}
    /\ \A i, j \in 1..Len(sc.s) :
          /\ NumLess(sc.s[j], sc.s[i]) => NumLess(r.s[i], r.s[j])
          /\ (NumEq(sc.s[i], sc.s[j]) /\ i < j) => NumLess(r.s[i], r.s[j])

C8_RanksArePermutation ==
    Ranked => (IsDenseRank(rank_a, score_a) /\ IsDenseRank(rank_b, score_b))

\* C9: a failure of either formula aborts the run: the error is shown and
\* the clamp, the ranks, rank_delta, the top-K table and the output are never
\* reached, and no score of the other formula is ranked or shown.
EvalFailed == EvalOfA.kind # "ok" \/ EvalOfB.kind # "ok"

C9_FailureAborts ==
    /\ EvalFailed => pc \in {"filter", "eval_a", "eval_b", "except", "stopped"}
    /\ error # NoError =>
          /\ pc \in {"except", "stopped"}
          /\ rank_a = NoColumn /\ rank_b = NoColumn /\ rank_delta = NoColumn
          /\ topk_df = <<>>
          /\ output.kind \in {"none", "error"}
    /\ (error # NoError /\ EvalFailed) =>
          /\ score_b = NoColumn
          /\ score_a \in {NoColumn, SetColumn(filtered_df, EvalOfA.val)}
          /\ error \in {EvalOfA, EvalOfB}
    /\ (pc = "stopped" /\ error # NoError) =>
          output = [kind |-> "error", rows |-> <<>>, msg |-> error.msg]

C9_Witness ==
    /\ pc = "stopped"
    /\ EvalOfA.kind = "ok"
    /\ error = EvalOfB
    /\ error.kind = "ValueError"
    /\ score_a # NoColumn
    /\ output.kind = "error"

====
